---- MODULE Spec2Model ----
(***************************************************************************)
(* The Spotify play logger: the live polling loop of                       *)
(* my_spotify_logger_soundstat.py with the feature resolver, the SoundStat *)
(* unit conversion and the track_info table of spotify_interface.py.       *)
(*                                                                         *)
(* Time is in whole seconds.  Descriptor values are fixed-point numbers in *)
(* units of 1/Scale, so that the conversion factors 0.005, 2.25 and 0.03   *)
(* are exact on the values used.  A nullable scalar is <<>> (None / JSON   *)
(* null / SQL NULL) or <<n>>.                                              *)
(***************************************************************************)
EXTENDS Integers, Sequences, FiniteSets, TLC

\* ------------------------------------------------------------- constants
TIME_DELAY == 5
MINIMUM_PLAY_TIME == 20
COOLDOWN == 60

\* ---------------------------------------------------------------- bounds
MaxClock == 30
MaxStarts == 3

\* Seconds the analysis-service request can take
FetchTimes == {0, 2}

Scale == 1000 * 1000
Tracks == {"A", "B"}
None == "None"
NoItem == "NoItem"
Null == <<>>
Num(n) == <<n>>

\* Python truthiness of a nullable number: None and 0 / 0.0 are falsy.
Truthy(v) == v # Null /\ v[1] # 0

\* dict.get(key, None)
Get(d, k) == IF k \in DOMAIN d THEN d[k] ELSE Null

\* ------------------------------------------------ spotify_interface.keys
keys == {"acousticness", "danceability", "energy", "instrumentalness", "key",
         "liveness", "loudness", "mode", "speechiness", "tempo",
         "time_signature", "valence"}

convert_keysMutSpec == <<"acousticness", "danceability", "energy", "loudness">>
convert_keys == <<"acousticness", "energy", "instrumentalness", "loudness">>

\* All 12 descriptors None: TrackRecord(*[None] * 17)
NoFeatures == [k \in keys |-> Null]

\* {key: tf.get(key, None) for key in iface.keys.keys()}
Project(tf) == [k \in keys |-> Get(tf, k)]

\* f"{datetime.timedelta(seconds=round(play_time, 0))}": "H:MM:SS"
FormatTimedelta(s) == <<s \div 3600, (s % 3600) \div 60, s % 60>>

\* ------------------------------------------- convert_to_spotify(features)
\* x *= num/den on a fixed-point value
Times(v, num, den) == Num((v[1] * num) \div den)

\* features[k] with k absent raises KeyError, None * float raises TypeError
Usable(features, k) == k \in DOMAIN features /\ features[k] # Null

ConvertValue(features, k) ==
    IF k = convert_keys[1] THEN Times(features[k], 5, 1000)
    ELSE IF k = convert_keys[2] THEN Times(features[k], 225, 100)
    ELSE IF k = convert_keys[3] THEN Times(features[k], 3, 100)
    ELSE IF k = convert_keys[4] THEN Num(-((Scale - features[k][1]) * 14))
    ELSE features[k]

convert_to_spotify(features) ==
    IF DOMAIN features = {} THEN [kind |-> "none"]
    ELSE IF \E i \in 1..4 : ~Usable(features, convert_keys[i])
         THEN [kind |-> "raise"]
         ELSE [kind |-> "ok",
               val |-> [k \in DOMAIN features |-> ConvertValue(features, k)]]

\* ------------------------------------------------ analysis-service bodies
\* The raw "features" objects the analysis service can answer with.
RawFull(a) ==
    [k \in keys |->
        CASE k = "acousticness" -> Num(a)
          [] k = "danceability" -> Num(Scale)
          [] k = "energy" -> Num(Scale)
          [] k = "instrumentalness" -> Num(Scale)
          [] k = "loudness" -> Num(0)
          [] k = "key" -> Num(5)
          [] k = "mode" -> Num(1)
          [] k = "time_signature" -> Num(4)
          [] OTHER -> Num(Scale \div 2)]

Without(d, k) == [x \in DOMAIN d \ {k} |-> d[x]]

RawFeatures ==
    { RawFull(Scale),                                   \* every field present
      RawFull(0),                                       \* acousticness 0.0
      Without(RawFull(Scale), "time_signature"),        \* an unconverted key absent
      Without(RawFull(Scale), "instrumentalness"),      \* a converted key absent
      [RawFull(Scale) EXCEPT !["energy"] = Null],       \* a converted key null
      <<>> }                                            \* "features": {} or null

\* What requests.get(...).json() can do: raise, give a body, or, called
\* without timeout= as it is, never return
AnalysisResponses ==
    { [kind |-> "exception"], [kind |-> "hang"] }
      \cup { [kind |-> "body", body |-> [detail |-> "error"]] }
      \cup { [kind |-> "body", body |-> <<>>] }
      \cup { [kind |-> "body", body |-> [features |-> f]] : f \in RawFeatures }

\* get_track_info(track): the body, or None on any exception
get_track_info(resp) == IF resp.kind = "body" THEN resp.body ELSE Null

\* ------------------------------------------------------ track_info table
\* The table is a sequence of rows, in insertion order.
RowsOf(table, id) == SelectSeq(table, LAMBDA r : r.track_id = id)

\* SpotifyDb.extract_track_info: {} or the first matching row as a dict
extract_track_info(table, id) ==
    IF RowsOf(table, id) = <<>> THEN <<>>
    ELSE LET r == RowsOf(table, id)[1]
         IN  [k \in keys |-> r.features[k]]

add_trackMutNoTest(table, rec) ==
    IF RowsOf(table, rec.id) # <<>>
    THEN table
    ELSE Append(table,
                [track_id |-> rec.id, title |-> rec.name, artist |-> rec.artist,
                 features |-> rec.features,
                 spotify_flag |-> Truthy(rec.features["time_signature"])])

\* SpotifyDb.add_track
add_track(table, rec) ==
    IF ~Truthy(rec.features["acousticness"]) \/ RowsOf(table, rec.id) # <<>>
    THEN table
    ELSE Append(table,
                [track_id |-> rec.id, title |-> rec.name, artist |-> rec.artist,
                 features |-> rec.features,
                 spotify_flag |-> Truthy(rec.features["time_signature"])])

\* ------------------------------------------------------- feature resolver
\* get_track_audio_features_spotify(track): defined in the logger, called
\* nowhere.  sresp is what spotify.audio_features would answer.
get_track_audio_features_spotify(sresp) ==
    IF sresp.kind = "exception" THEN [kind |-> "none", slept |-> COOLDOWN]
    ELSE IF sresp.af = <<>> THEN [kind |-> "none", slept |-> 0]
    ELSE [kind |-> "ok", af |-> sresp.af, slept |-> 0]

\* The result of one call: kind "ok" (af is the bundle), "none" (returned
\* None), "raise" (an exception left the function) or "blocked" (the call
\* waits for an answer that never comes); analysis / streaming say which
\* remote services the call used.
Resolution(kind, af, source, analysis, streaming) ==
    [kind |-> kind, af |-> af, source |-> source,
     analysis |-> analysis, streaming |-> streaming]

get_track_audio_featuresMutRemoteFirst(table, id, resp) ==
    LET track_info == get_track_info(resp)
        features == IF track_info # Null THEN Get(track_info, "features") ELSE Null
        conv == convert_to_spotify(features)
        tf == extract_track_info(table, id)
    IN  IF conv.kind = "ok"
        THEN Resolution("ok", Project(conv.val), "analysis", TRUE, FALSE)
        ELSE IF DOMAIN tf # {}
        THEN Resolution("ok", Project(tf), "store", TRUE, FALSE)
        ELSE Resolution("none", NoFeatures, "none", TRUE, FALSE)

get_track_audio_featuresMutMerge(table, id, resp) ==
    LET tf == extract_track_info(table, id)
        track_info == get_track_info(resp)
        conv == convert_to_spotify(Get(track_info, "features"))
        remote == IF conv.kind = "ok" THEN Project(conv.val) ELSE NoFeatures
    IN  IF DOMAIN tf # {}
        THEN Resolution("ok",
                        [k \in keys |-> IF tf[k] # Null THEN tf[k] ELSE remote[k]],
                        "store", TRUE, FALSE)
        ELSE IF conv.kind = "ok"
        THEN Resolution("ok", remote, "analysis", TRUE, FALSE)
        ELSE Resolution("none", NoFeatures, "none", TRUE, FALSE)

get_track_audio_features(table, id, resp) ==
    LET tf == extract_track_info(table, id)
        track_info == get_track_info(resp)
    IN  IF DOMAIN tf # {}
        THEN Resolution("ok", Project(tf), "store", FALSE, FALSE)
        ELSE IF resp.kind = "hang"
        THEN Resolution("blocked", NoFeatures, "none", TRUE, FALSE)
        ELSE IF DOMAIN track_info = {}
        THEN Resolution("none", NoFeatures, "none", TRUE, FALSE)
        ELSE LET conv == convert_to_spotify(Get(track_info, "features"))
             IN  IF conv.kind = "raise"
                 THEN Resolution("raise", NoFeatures, "none", TRUE, FALSE)
                 ELSE IF conv.kind = "none"
                 THEN Resolution("none", NoFeatures, "none", TRUE, FALSE)
                 ELSE Resolution("ok", Project(conv.val), "analysis", TRUE, FALSE)

\* ---------------------------------------------------- the live loop: state
VARIABLES
    clock,            \* wall clock, seconds
    track_id,         \* main's track_id: None or the id being tracked
    track_played_at,  \* main's track_played_at
    track_record,     \* main's track_record
    tracks_log,       \* tracks_log["tracks"]; the log file holds it after each write
    db,               \* the track_info table
    crashed,          \* an exception left main()
    blocked,          \* main waits in a call that never returns
    run_start,        \* history: instant of the poll that first showed the track
    spans,            \* history: per log record, poll-to-poll span of its run
    finalized,        \* history: the last run that ended, and what became of it
    resolved,         \* history: the last get_track_audio_features call
    n_started,        \* history: runs begun
    n_resolve,        \* history: get_track_audio_features calls
    n_emitted,        \* history: records appended to the log
    last_poll,        \* history: the last poll and how its iteration ended
    conv_in,          \* conversion check: the features handed to convert_to_spotify
    conv_out,         \* conversion check: what convert_to_spotify made of them
    calls,            \* table check: the add_track calls made so far
    tracks,           \* add_audiofeatures_to_log: tracks_log["tracks"] as read
    modified_log,     \* add_audiofeatures_to_log: modified_log["tracks"]
    written,          \* add_audiofeatures_to_log: the modified log file
    start,            \* add_audiofeatures_to_log: main's start
    end,              \* add_audiofeatures_to_log: main's end
    pc,               \* add_audiofeatures_to_log: where main is
    batches,          \* history: the batches gone through, and how
    tracklog_df,      \* update_track_features_db: SpotifyLog.tracklog_df
    missing_df,       \* update_track_features_db: the rows check_missing returned
    tracklog_json,    \* update_track_features_db: the file tracklog_to_json writes
    reread,           \* what reading that file back gives
    upd_pc,           \* update_track_features_db: where __main__ is
    fills,            \* history: per row of tracklog_df, where its features came from
    merged            \* history: the last append_df call

liveVars == <<clock, track_id, track_played_at, track_record, tracks_log, crashed,
              blocked, run_start, spans, finalized, resolved, n_started, n_resolve,
              n_emitted, last_poll>>
convVars == <<conv_in, conv_out>>
enrichVars == <<tracks, modified_log, written, start, end, pc, batches>>
updateVars == <<tracklog_df, missing_df, tracklog_json, reread, upd_pc, fills>>
vars == <<liveVars, db, convVars, calls, enrichVars, updateVars, merged>>

\* The modified log file before anything is written to it
Unwritten == [exists |-> FALSE, tracks |-> <<>>]

\* add_audiofeatures_to_log.py is not running
EnrichIdle ==
    /\ tracks = <<>>
    /\ modified_log = <<>>
    /\ written = Unwritten
    /\ start = 0
    /\ end = 0
    /\ pc = "idle"
    /\ batches = <<>>

NoFill == [by |-> "none", raw |-> <<>>]
NoMerge == [valid |-> FALSE, before |-> <<>>, df |-> <<>>, raised |-> FALSE]

\* update_track_features_db.py is not running, append_df has not been called
\* self.account, the "spotify_account" of the log file the script was given
Account == "account"
NoFile == [exists |-> FALSE, doc |-> <<>>]
NotRead == [kind |-> "idle", account |-> Null, tracks |-> <<>>]
\* SpotifyLog.__init__ and the enricher's main: json.load, then
\* log_dict["tracks"] and log_dict["spotify_account"]; a missing key raises
\* KeyError
read_log(doc) ==
    IF "tracks" \in DOMAIN doc /\ "spotify_account" \in DOMAIN doc
    THEN [kind |-> "ok", account |-> Num(doc["spotify_account"]), tracks |-> doc["tracks"]]
    ELSE [kind |-> "raise", account |-> Null, tracks |-> <<>>]

UpdateIdle ==
    /\ tracklog_df = <<>>
    /\ missing_df = <<>>
    /\ tracklog_json = NoFile
    /\ reread = NotRead
    /\ upd_pc = "idle"
    /\ fills = <<>>
    /\ merged = NoMerge

\* TrackRecord(*[None] * 17)
BlankRecord ==
    [id |-> None, played_at |-> Null, name |-> Null, artist |-> Null,
     play_time |-> Null, features |-> NoFeatures]

\* What spotify.audio_features would answer, were it asked
StreamingBundle == [k \in keys |-> IF k = "loudness" THEN Num(-7 * Scale) ELSE Num(Scale \div 4)]
StreamingResponses ==
    { [kind |-> "exception", af |-> <<>>],
      [kind |-> "answer", af |-> <<>>],
      [kind |-> "answer", af |-> StreamingBundle] }

NoResolution ==
    [valid |-> FALSE, id |-> None, had_row |-> FALSE, row |-> NoFeatures,
     result |-> Resolution("none", NoFeatures, "none", FALSE, FALSE),
     at |-> 0, sresp |-> [kind |-> "exception", af |-> <<>>], raw |-> <<>>]

NoFinalized == [valid |-> FALSE, id |-> None, d |-> 0, play_time |-> 0,
                logged |-> FALSE, fetched |-> FALSE, by |-> "none"]

Pending == [kind |-> "pending"]

LiveInit ==
    /\ clock = 0
    /\ track_id = None
    /\ track_played_at = 0
    /\ track_record = BlankRecord
    /\ tracks_log = <<>>
    /\ crashed = FALSE
    /\ blocked = FALSE
    /\ run_start = 0
    /\ spans = <<>>
    /\ finalized = NoFinalized
    /\ resolved = NoResolution
    /\ n_started = 0
    /\ n_resolve = 0
    /\ n_emitted = 0
    /\ last_poll = [kind |-> "init", polled_at |-> 0, slept |-> FALSE, storage |-> "ok"]

Init ==
    /\ LiveInit
    /\ db = <<>>
    /\ conv_in = <<>>
    /\ conv_out = Pending
    /\ calls = <<>>
    /\ EnrichIdle
    /\ UpdateIdle

\* ------------------------------------------------------- get_track_update
\* The currently-playing call gives None (nothing playing), a playback
\* object without item (NoItem), one whose item is a track, or raises.
PollOutcomes ==
    { [kind |-> "answer", track |-> t] : t \in Tracks \cup {None, NoItem} }
      \cup { [kind |-> "exception", track |-> None] }

get_track_updateMutNoCatch(o) ==
    IF o.kind = "exception" THEN [track |-> None, slept |-> 0, raised |-> TRUE]
    ELSE [track |-> o.track, slept |-> 0, raised |-> FALSE]

get_track_update(o) ==
    IF o.kind = "exception" THEN [track |-> None, slept |-> COOLDOWN, raised |-> FALSE]
    ELSE [track |-> o.track, slept |-> 0, raised |-> FALSE]

\* ------------------------------------------------------------------ main
\* new_track = track and track["item"] and track_id != track["item"]["id"]
new_track(track) == track \notin {None, NoItem} /\ track_id # track

\* (new_track and track_id) or (track is None and track_id)
ends_run(track) ==
    \/ new_track(track) /\ track_id # None
    \/ track = None /\ track_id # None

\* if play_time > MINIMUM_PLAY_TIME
qualifiesMutAlways(play_time) == TRUE
qualifies(play_time) == play_time > MINIMUM_PLAY_TIME

finalizeMutNoPlayTime(rec, play_time) == rec
\* track_record.play_time = f"{datetime.timedelta(seconds=round(play_time, 0))}"
finalize(rec, play_time) == [rec EXCEPT !.play_time = FormatTimedelta(play_time)]

resolver_calledMutOnEmit(nt, emit) == emit
\* af = get_track_audio_features(db, track_id) stands in the if new_track
\* block, not in the block that logs the previous track
resolver_called(nt, emit) == nt

log_appendMutRestart(log, rec) == <<rec>>
\* tracks_log["tracks"].append(track_record.as_dict()): the list that
\* update_track_logfile then dumps whole
log_append(log, rec) == Append(log, rec)

write_playMutInsertFirst(table, rec, wf) ==
    IF wf # "db" THEN add_track(table, rec) ELSE table
\* update_track_logfile(tracks_log) and then db.add_track(track_record): the
\* insert is reached only if the rewrite of the file returned, and wf = "db"
\* is the insert itself raising
write_play(table, rec, wf) ==
    IF wf = "ok" THEN add_track(table, rec) ELSE table

\* What a write to storage can do: succeed, or raise in update_track_logfile
\* (open / json.dump), or raise in db.add_track (the table is out of reach)
WriteOutcomes == {"ok", "log", "db"}

\* One iteration of while True, from the poll to the sleep (or to the
\* continue, or to the exception that ends main, or to the call that never
\* returns): the poll outcome o, and for a new track the analysis service's
\* answer resp after ft seconds; sresp is what the streaming service would
\* answer; wf is what the writes of a logged play do.
Iteration(o, resp, sresp, ft, wf) ==
    LET upd == get_track_update(o)
        track == upd.track
        polled_at == clock
        now == clock + upd.slept
        nt == new_track(track)
        ends == ends_run(track)
        play_time == now - track_played_at
        emit == ends /\ qualifies(play_time)
        done == finalize(track_record, play_time)
        log1 == IF emit THEN log_append(tracks_log, done) ELSE tracks_log
        failed == IF emit THEN wf ELSE "ok"
        db1 == IF emit THEN write_play(db, done, failed) ELSE db
        fresh == [BlankRecord EXCEPT !.id = track, !.played_at = Num(now),
                                     !.artist = <<"artist", track>>,
                                     !.name = <<"name", track>>,
                                     !.play_time = Null]
        res == get_track_audio_features(db1, track, resp)
        took == IF res.analysis /\ res.kind # "blocked" THEN ft ELSE 0
        call == resolver_called(nt, emit)
    IN  /\ ~crashed
        /\ ~blocked
        /\ clock <= MaxClock
        /\ UNCHANGED <<convVars, calls, enrichVars, updateVars, merged>>
        /\ nt => n_started < MaxStarts
        /\ tracks_log' = log1
        /\ db' = db1
        /\ spans' = IF emit THEN Append(spans, polled_at - run_start) ELSE spans
        /\ n_emitted' = IF emit THEN n_emitted + 1 ELSE n_emitted
        /\ finalized' = IF ends
                        THEN [valid |-> TRUE, id |-> track_id,
                              d |-> polled_at - run_start, play_time |-> play_time,
                              logged |-> emit,
                              fetched |-> resolved.valid /\ resolved.id = track_id,
                              by |-> o.kind]
                        ELSE finalized
        /\ IF upd.raised
           THEN /\ crashed' = TRUE
                /\ blocked' = FALSE
                /\ clock' = now
                /\ last_poll' = [kind |-> o.kind, polled_at |-> polled_at,
                                 slept |-> FALSE, storage |-> failed]
                /\ UNCHANGED <<track_id, track_played_at, track_record, run_start,
                               resolved, n_started, n_resolve>>
           ELSE IF failed # "ok"
           THEN /\ crashed' = TRUE
                /\ blocked' = FALSE
                /\ clock' = now
                /\ track_record' = done
                /\ last_poll' = [kind |-> o.kind, polled_at |-> polled_at,
                                 slept |-> FALSE, storage |-> failed]
                /\ UNCHANGED <<track_id, track_played_at, run_start,
                               resolved, n_started, n_resolve>>
           ELSE IF nt
           THEN /\ track_id' = track
                /\ track_played_at' = now
                /\ run_start' = polled_at
                /\ n_started' = n_started + 1
                /\ n_resolve' = IF call THEN n_resolve + 1 ELSE n_resolve
                /\ resolved' = IF ~call THEN resolved ELSE
                               [valid |-> TRUE, id |-> track, at |-> now,
                                had_row |-> RowsOf(db1, track) # <<>>,
                                row |-> IF RowsOf(db1, track) # <<>>
                                        THEN RowsOf(db1, track)[1].features
                                        ELSE NoFeatures,
                                result |-> res,
                                sresp |-> IF res.kind = "none" THEN sresp
                                          ELSE NoResolution.sresp,
                                raw |-> IF res.kind = "ok" /\ res.analysis
                                        THEN Get(get_track_info(resp), "features")
                                        ELSE <<>>]
                /\ track_record' = IF res.kind = "ok"
                                   THEN [fresh EXCEPT !.features = res.af]
                                   ELSE fresh
                /\ crashed' = (res.kind = "raise")
                /\ blocked' = (res.kind = "blocked")
                /\ clock' = IF res.kind = "ok" THEN now + took + TIME_DELAY
                            ELSE now + took
                /\ last_poll' = [kind |-> o.kind, polled_at |-> polled_at,
                                 slept |-> res.kind = "ok", storage |-> "ok"]
           ELSE /\ track_id' = IF track = None THEN None ELSE track_id
                /\ track_record' = IF emit THEN done ELSE track_record
                /\ crashed' = FALSE
                /\ blocked' = FALSE
                /\ clock' = now + TIME_DELAY
                /\ last_poll' = [kind |-> o.kind, polled_at |-> polled_at,
                                 slept |-> TRUE, storage |-> "ok"]
                /\ n_resolve' = IF call THEN n_resolve + 1 ELSE n_resolve
                /\ UNCHANGED <<track_played_at, run_start, resolved, n_started>>

\* The streaming service's would-be answer matters only to a call that ends
\* with None.
StreamingInputs(t, resp) ==
    IF get_track_audio_features(db, t, resp).kind = "none"
    THEN StreamingResponses ELSE {NoResolution.sresp}

\* The writes matter only to an iteration that logs a play.
WriteInputs(o) ==
    LET upd == get_track_update(o)
    IN  IF ends_run(upd.track) /\ qualifies(clock + upd.slept - track_played_at)
        THEN WriteOutcomes ELSE {"ok"}

\* The iteration for each kind of poll outcome.
PollTrack ==
    \E t \in Tracks :
        \/ \E resp \in AnalysisResponses, ft \in FetchTimes :
              \E sresp \in StreamingInputs(t, resp) :
                  Iteration([kind |-> "answer", track |-> t], resp, sresp, ft, "ok")
        \/ \E wf \in WriteInputs([kind |-> "answer", track |-> t]) \ {"ok"} :
              Iteration([kind |-> "answer", track |-> t],
                        [kind |-> "exception"], [kind |-> "exception", af |-> <<>>], 0, wf)

PollNoItem ==
    Iteration([kind |-> "answer", track |-> NoItem],
              [kind |-> "exception"], [kind |-> "exception", af |-> <<>>], 0, "ok")

PollNothing ==
    \E wf \in WriteInputs([kind |-> "answer", track |-> None]) :
        Iteration([kind |-> "answer", track |-> None],
                  [kind |-> "exception"], [kind |-> "exception", af |-> <<>>], 0, wf)

PollFails ==
    \E wf \in WriteInputs([kind |-> "exception", track |-> None]) :
        Iteration([kind |-> "exception", track |-> None],
                  [kind |-> "exception"], [kind |-> "exception", af |-> <<>>], 0, wf)

Next == PollTrack \/ PollNoItem \/ PollNothing \/ PollFails

Spec == Init /\ [][Next]_vars

\* ------------------------------------------- the conversion on its own
\* convert_to_spotify applied to one features object: the five fields the
\* conversion or its description name take each of three values, tempo stands
\* for the fields nobody names, and a field may be absent.
ConvValues == {0, Scale \div 5, Scale}
ConvFull ==
    { [acousticness |-> Num(a), danceability |-> Num(d), energy |-> Num(e),
       instrumentalness |-> Num(i), loudness |-> Num(l), tempo |-> Num(120 * Scale)] :
         a \in ConvValues, d \in ConvValues, e \in ConvValues,
         i \in ConvValues, l \in ConvValues }
ConvInputs ==
    ConvFull
      \cup { Without(f, "tempo") : f \in ConvFull }
      \cup { Without(Without(f, "tempo"), "instrumentalness") : f \in ConvFull }
      \cup { Without(Without(f, "tempo"), "danceability") : f \in ConvFull }

InitConv ==
    /\ LiveInit
    /\ db = <<>>
    /\ conv_in \in ConvInputs
    /\ conv_out = Pending
    /\ calls = <<>>
    /\ EnrichIdle
    /\ UpdateIdle

Convert ==
    /\ conv_out = Pending
    /\ conv_out' = convert_to_spotify(conv_in)
    /\ UNCHANGED <<liveVars, db, conv_in, calls, enrichVars, updateVars, merged>>

SpecConv == InitConv /\ [][Convert]_vars

\* --------------------------------------------- the table on its own
\* add_track called with any record: a track, and one of four descriptor
\* bundles (two different full ones, one whose acousticness is 0.0, none).
MaxCalls == 3

BundleD1 == Project(convert_to_spotify(RawFull(Scale)).val)
BundleD2 == StreamingBundle
BundleZero == Project(convert_to_spotify(RawFull(0)).val)

StoreRecords ==
    { [BlankRecord EXCEPT !.id = t, !.name = <<"name", t>>,
                          !.artist = <<"artist", t>>, !.features = f] :
        t \in Tracks, f \in {BundleD1, BundleD2, BundleZero, NoFeatures} }

AddTrackCall ==
    /\ Len(calls) < MaxCalls
    /\ \E rec \in StoreRecords :
        /\ db' = add_track(db, rec)
        /\ calls' = Append(calls, rec)
    /\ UNCHANGED <<liveVars, convVars, enrichVars, updateVars, merged>>

SpecStore == Init /\ [][AddTrackCall]_vars

\* ------------------------------------------ add_audiofeatures_to_log.py
\* main() reads the log, goes through it in batches of BATCH_LENGTH and
\* writes the modified log.  BATCH_LENGTH is 100 in the source; the batches
\* here are scaled down to 2 records, the logs to at most MaxLog records.
BATCH_LENGTH == 2
MaxLog == 4

LogFields == {"play_time"} \cup keys

\* dict.get(key, default): the default only when the key is absent
GetDefault(d, k, default) == IF k \in DOMAIN d THEN d[k] ELSE default

\* The records a log can hold, by the keys they have beside id, played_at,
\* artist and name: every field with a value; play_time alone (written by
\* my_spotify_logger_original.py); every descriptor null (written by the
\* live logger for a track without features); neither play_time nor
\* descriptors; every field with a value, acousticness being 0.0.
ShapeFull ==
    [k \in LogFields |-> IF k = "play_time" THEN FormatTimedelta(185) ELSE BundleD1[k]]
ShapeBare == [k \in {"play_time"} |-> FormatTimedelta(185)]
ShapeNulls ==
    [k \in LogFields |-> IF k = "play_time" THEN FormatTimedelta(185) ELSE Null]
ShapeNoPlay == <<>>
ShapeZero == [ShapeFull EXCEPT !["acousticness"] = Num(0)]
RecordShapes == {ShapeFull, ShapeBare, ShapeNulls, ShapeNoPlay, ShapeZero}

\* A log of n records: record i was played at instant i
LogsOf(n) ==
    { [i \in 1..n |-> [played_at |-> i, id |-> "A", d |-> shapes[i]]] :
        shapes \in [1..n -> RecordShapes] }
InputLogs == UNION { LogsOf(n) : n \in 0..MaxLog }

\* What spotify.audio_features(tracks=ids) can do: raise, or give a list
\* with, per id, the audio features or None
AudioFeatures ==
    [k \in keys \cup {"duration_ms"} |->
        IF k = "duration_ms" THEN Num(200 * 1000) ELSE StreamingBundle[k]]
BatchAnswers(n) ==
    { [kind |-> "exception", afs |-> <<>>] }
      \cup { [kind |-> "answer", afs |-> afs] : afs \in [1..n -> {AudioFeatures, Null}] }

\* get_audio_features(tracks): the list, or exit() on any exception
get_audio_features(answer) ==
    IF answer.kind = "exception" THEN [exited |-> TRUE, tracks_af |-> <<>>]
    ELSE [exited |-> FALSE, tracks_af |-> answer.afs]

\* not tracks[start].get("play_time") or not tracks[start].get("acousticness")
first_lacks(first) ==
    Get(first.d, "play_time") = Null \/ ~Truthy(Get(first.d, "acousticness"))

\* The body of for index, af in enumerate(tracks_af, start): the modified
\* record; af[...] is evaluated whether or not the default is used.
modified_track_record(rec, af) ==
    LET play_time ==
            GetDefault(rec.d, "play_time",
                       FormatTimedelta((af["duration_ms"][1] + 500) \div 1000))
        local(k) == GetDefault(rec.d, k, af[k])
    IN  [played_at |-> rec.played_at, id |-> rec.id,
         d |-> [k \in LogFields |->
                  IF k = "play_time" THEN GetDefault(rec.d, "play_time", play_time)
                  ELSE IF k = "acousticness"
                  THEN GetDefault(rec.d, "accousticness", local(k))
                  ELSE GetDefault(rec.d, k, local(k))]]

\* The records the for loop appends before it ends or af["duration_ms"]
\* raises TypeError on an af that is None
Enriched(batch, tracks_af) ==
    LET bad == { i \in DOMAIN tracks_af : tracks_af[i] = Null }
        n == IF bad = {} THEN Len(tracks_af)
             ELSE (CHOOSE i \in bad : \A j \in bad : i <= j) - 1
    IN  [i \in 1..n |-> modified_track_record(batch[i], tracks_af[i])]

InitEnrich ==
    /\ LiveInit
    /\ db = <<>>
    /\ conv_in = <<>>
    /\ conv_out = Pending
    /\ calls = <<>>
    /\ tracks \in InputLogs
    /\ modified_log = <<>>
    /\ written = Unwritten
    /\ start = 0
    /\ end = IF BATCH_LENGTH < Len(tracks) THEN BATCH_LENGTH ELSE Len(tracks)
    /\ pc = "loop"
    /\ batches = <<>>
    /\ UpdateIdle

\* One pass of while end <= nr_tracks, the loop test included: the loop
\* ends and the log is written; or tracks[start] raises IndexError; or the
\* batch is fetched and merged; or it is copied.
EnrichBatch ==
    LET nr_tracks == Len(tracks)
        batch == SubSeq(tracks, start + 1, end)
        start1 == start + BATCH_LENGTH
        end1 == IF start1 + BATCH_LENGTH < nr_tracks THEN start1 + BATCH_LENGTH
                ELSE nr_tracks
    IN  /\ pc = "loop"
        /\ UNCHANGED <<liveVars, db, convVars, calls, tracks, updateVars, merged>>
        /\ IF ~(end <= nr_tracks)
           THEN /\ written' = [exists |-> TRUE, tracks |-> modified_log]
                /\ pc' = "done"
                /\ UNCHANGED <<modified_log, start, end, batches>>
           ELSE IF ~(start < nr_tracks)
           THEN /\ pc' = "raise"
                /\ UNCHANGED <<modified_log, written, start, end, batches>>
           ELSE IF first_lacks(tracks[start + 1])
           THEN \E answer \in BatchAnswers(end - start) :
                  LET got == get_audio_features(answer)
                      out == Enriched(batch, got.tracks_af)
                      whole == ~got.exited /\ Len(out) = Len(batch)
                  IN  /\ modified_log' = modified_log \o out
                      /\ batches' = Append(batches,
                             [start |-> start, end |-> end, fetched |-> TRUE,
                              answer |-> answer, whole |-> whole])
                      /\ pc' = IF got.exited THEN "exit"
                               ELSE IF ~whole THEN "raise" ELSE "loop"
                      /\ start' = IF whole THEN start1 ELSE start
                      /\ end' = IF whole THEN end1 ELSE end
                      /\ UNCHANGED written
           ELSE /\ modified_log' = modified_log \o batch
                /\ batches' = Append(batches,
                       [start |-> start, end |-> end, fetched |-> FALSE,
                        answer |-> [kind |-> "none", afs |-> <<>>], whole |-> TRUE])
                /\ start' = start1
                /\ end' = end1
                /\ UNCHANGED <<written, pc>>

SpecEnrich == InitEnrich /\ [][EnrichBatch]_vars

\* ------------------------------------------------ SpotifyDb.append_df
\* drop_duplicates(subset=["track_id"], keep="first")
RECURSIVE drop_duplicates(_)
drop_duplicates(rows) ==
    IF rows = <<>> THEN <<>>
    ELSE LET front == drop_duplicates(SubSeq(rows, 1, Len(rows) - 1))
             last == rows[Len(rows)]
         IN  IF \E j \in DOMAIN front : front[j].track_id = last.track_id
             THEN front ELSE Append(front, last)

\* pd.concat([db_df, df]) if the table has rows, else df
concat(table, df) == IF table # <<>> THEN table \o df ELSE df

\* spotify_interface.SpotifyDb.append_df: the table is read, truncated (and
\* the truncation committed), the frames are merged, and then
\* self.engine.being() raises AttributeError: Engine has no such attribute.
append_df(table, df) == [table |-> <<>>, raised |-> TRUE]

\* update_track_features_db.SpotifyDb.append_df: read, delete from (and
\* commit), merge, to_sql; to_sql says whether that last write succeeds.
append_df_update(table, df, to_sql) ==
    IF to_sql = "ok"
    THEN [table |-> drop_duplicates(concat(table, df)), raised |-> FALSE]
    ELSE [table |-> <<>>, raised |-> TRUE]

\* A table of up to two rows, one per track, and a frame of up to two rows
MergeRows == { [track_id |-> t, title |-> <<"name", t>>, artist |-> <<"artist", t>>,
                features |-> f] : t \in Tracks, f \in {BundleD1, BundleD2} }
MergeFrames == UNION { [1..n -> MergeRows] : n \in 0..2 }
MergeTables == { table \in MergeFrames : drop_duplicates(table) = table }

InitMerge ==
    /\ LiveInit
    /\ db \in MergeTables
    /\ conv_in = <<>>
    /\ conv_out = Pending
    /\ calls = <<>>
    /\ EnrichIdle
    /\ UpdateIdle

\* One call of append_df, of either module, on the table as it is
AppendDfInterface ==
    /\ ~merged.valid
    /\ \E df \in MergeFrames :
          LET done == append_df(db, df)
          IN  /\ db' = done.table
              /\ merged' = [valid |-> TRUE, before |-> db, df |-> df,
                             raised |-> done.raised]
    /\ UNCHANGED <<liveVars, convVars, calls, enrichVars, updateVars>>

AppendDfUpdate ==
    /\ ~merged.valid
    /\ \E df \in MergeFrames, to_sql \in {"ok", "error"} :
          LET done == append_df_update(db, df, to_sql)
          IN  /\ db' = done.table
              /\ merged' = [valid |-> TRUE, before |-> db, df |-> df,
                             raised |-> done.raised]
    /\ UNCHANGED <<liveVars, convVars, calls, enrichVars, updateVars>>

NextMerge == AppendDfInterface \/ AppendDfUpdate

SpecMerge == InitMerge /\ [][NextMerge]_vars

\* ------------------------------------------- update_track_features_db.py
\* __main__: check_missing, soundstat_db_update, tracklog_to_json on a log
\* of at most MaxDf rows.
MaxDf == 2

DfRow(t, f) == [id |-> t, name |-> <<"name", t>>, artist |-> <<"artist", t>>, features |-> f]
TrackLogs ==
    UNION { [1..n -> { DfRow(t, f) : t \in Tracks, f \in {BundleD2, NoFeatures} }] :
              n \in 0..MaxDf }

\* A row of this script's track_info table (no id, no spotify_flag column)
TableRow(r) == [track_id |-> r.id, title |-> r.name, artist |-> r.artist,
                features |-> r.features]
FeatureTables == { <<>>, <<TableRow(DfRow("A", BundleD1))>> }

\* pd.isnull(tracklog_df["acousticness"])
missing_features(df) == { i \in DOMAIN df : df[i].features["acousticness"] = Null }

\* get_track_info of this script: requests.get(...).json(), nothing caught
UpdateResponses == { resp \in AnalysisResponses : resp.kind # "hang" }

\* store_to_db: the rows with acousticness, as table rows
store_rows(df) ==
    LET have == SelectSeq(df, LAMBDA r : r.features["acousticness"] # Null)
    IN  [i \in DOMAIN have |-> TableRow(have[i])]

InitUpdate ==
    /\ LiveInit
    /\ db \in FeatureTables
    /\ conv_in = <<>>
    /\ conv_out = Pending
    /\ calls = <<>>
    /\ EnrichIdle
    /\ tracklog_df \in TrackLogs
    /\ missing_df = <<>>
    /\ tracklog_json = NoFile
    /\ reread = NotRead
    /\ upd_pc = "check_missing"
    /\ fills = [i \in DOMAIN tracklog_df |-> NoFill]
    /\ merged = NoMerge

\* check_missing: every row without acousticness gets the 12 descriptors
\* of the last table row of its track, if there is one; with no row missing,
\* print(f"processed: {i}, ...") raises NameError.
check_missing ==
    LET missing == missing_features(tracklog_df)
        found(i) == RowsOf(db, tracklog_df[i].id)
        filled == [i \in DOMAIN tracklog_df |->
                     IF i \in missing /\ found(i) # <<>>
                     THEN [tracklog_df[i] EXCEPT
                             !.features = found(i)[Len(found(i))].features]
                     ELSE tracklog_df[i]]
        still == { i \in DOMAIN filled : i \in missing_features(filled) }
    IN  /\ upd_pc = "check_missing"
        /\ tracklog_df' = filled
        /\ fills' = [i \in DOMAIN tracklog_df |->
                       IF i \in missing /\ found(i) # <<>>
                       THEN [by |-> "store", raw |-> <<>>] ELSE fills[i]]
        /\ missing_df' = SelectSeq([i \in DOMAIN filled |-> i], LAMBDA i : i \in still)
        /\ upd_pc' = IF missing = {} THEN "raise" ELSE "soundstat_db_update"
        /\ UNCHANGED <<liveVars, db, convVars, calls, enrichVars, tracklog_json, reread, merged>>

\* The rows of tracklog_df after the loop of soundstat_db_update over the
\* first n missing rows, answers[j] being the answer for the j-th of them
RECURSIVE Updated(_, _, _)
Updated(df, answers, n) ==
    IF n = 0 THEN df
    ELSE LET prev == Updated(df, answers, n - 1)
             track_features == Get(get_track_info(answers[n]), "features")
         IN  IF DOMAIN track_features # {}
             THEN [prev EXCEPT ![missing_df[n]].features = Project(track_features)]
             ELSE prev

\* soundstat_db_update: every row still missing gets the descriptors the
\* analysis service answers, as answered; then store_to_db.  An exception of
\* the request ends the script; with no row missing, the print after
\* store_to_db raises NameError.
soundstat_db_update ==
    /\ upd_pc = "soundstat_db_update"
    /\ \E answers \in [DOMAIN missing_df -> UpdateResponses], to_sql \in {"ok", "error"} :
          LET bad == { j \in DOMAIN answers : answers[j].kind = "exception" }
              n == IF bad = {} THEN Len(answers)
                   ELSE (CHOOSE j \in bad : \A k \in bad : j <= k) - 1
              df == Updated(tracklog_df, answers, n)
              raw(j) == Get(get_track_info(answers[j]), "features")
              got == { j \in 1..n : DOMAIN raw(j) # {} }
              stored == append_df_update(db, store_rows(df), to_sql)
          IN  /\ tracklog_df' = df
              /\ fills' = [i \in DOMAIN fills |->
                             IF \E j \in got : missing_df[j] = i
                             THEN [by |-> "analysis",
                                   raw |-> raw(CHOOSE j \in got : missing_df[j] = i)]
                             ELSE fills[i]]
              /\ IF bad # {}
                 THEN /\ upd_pc' = "raise"
                      /\ UNCHANGED <<db, merged>>
                 ELSE /\ db' = stored.table
                      /\ merged' = [valid |-> TRUE, before |-> db,
                                     df |-> store_rows(df), raised |-> stored.raised]
                      /\ upd_pc' = IF stored.raised \/ missing_df = <<>>
                                   THEN "raise" ELSE "tracklog_to_json"
    /\ UNCHANGED <<liveVars, convVars, calls, enrichVars, missing_df, tracklog_json,
                   reread>>

\* tracklog_to_json
tracklog_to_json ==
    /\ upd_pc = "tracklog_to_json"
    /\ tracklog_json' = [exists |-> TRUE,
                         doc |-> [spotify_accounts |-> Account,
                                  tracks |-> tracklog_df]]
    /\ upd_pc' = "done"
    /\ UNCHANGED <<liveVars, db, convVars, calls, enrichVars, tracklog_df,
                   missing_df, reread, fills, merged>>

\* The file tracklog_to_json wrote, given to SpotifyLog(filename) or to the
\* enricher's main as their log file.
ReadWrittenLog ==
    /\ upd_pc = "done"
    /\ tracklog_json.exists
    /\ reread' = read_log(tracklog_json.doc)
    /\ upd_pc' = "read"
    /\ UNCHANGED <<liveVars, db, convVars, calls, enrichVars, tracklog_df,
                   missing_df, tracklog_json, fills, merged>>

NextUpdate == check_missing \/ soundstat_db_update \/ tracklog_to_json \/ ReadWrittenLog

SpecUpdate == InitUpdate /\ [][NextUpdate]_vars

\* =================================================================== claims

\* C1: a run that a snapshot ends (another track, or nothing playing) after
\* poll-to-poll duration d is appended to the play log if and only if
\* d >= MINIMUM_PLAY_TIME, the boundary d = MINIMUM_PLAY_TIME included.
C1_EmittedIffAtLeastMinimum ==
    finalized.valid /\ finalized.by = "answer"
        => (finalized.logged <=> finalized.d >= MINIMUM_PLAY_TIME)

\* C2: the play_time of every record of the play log is the span between the
\* first poll that showed the track and the poll that showed the change or
\* the absence, also when that last poll failed and was followed by the
\* cooldown sleep.
C2_PlayTimeIsPollSpan ==
    \A i \in DOMAIN tracks_log :
        tracks_log[i].play_time = FormatTimedelta(spans[i])

\* C3: a track whose run lasts less than MINIMUM_PLAY_TIME reaches neither
\* the play log nor the feature resolver.
C3_FastSkipReachesNothing ==
    finalized.valid /\ finalized.d < MINIMUM_PLAY_TIME
        => ~finalized.logged /\ ~finalized.fetched

C6_FallsThroughToStreaming ==
    resolved.valid /\ resolved.result.kind = "none"
        => /\ resolved.result.streaming
           /\ get_track_audio_features_spotify(resolved.sresp).kind = "none"

\* C7: the resolver consults the table first; a row found is returned with
\* its 12 descriptors as stored, unconverted, and neither remote service is
\* called; the analysis service is called only when the table has no row.
C7_LocalStoreFirst ==
    resolved.valid =>
        /\ resolved.had_row =>
              /\ resolved.result.kind = "ok"
              /\ resolved.result.af = resolved.row
              /\ ~resolved.result.analysis
              /\ ~resolved.result.streaming
        /\ resolved.result.analysis => ~resolved.had_row
        /\ track_id = resolved.id /\ resolved.had_row =>
              track_record.features = resolved.row

\* C7's case: the resolver was called for a track that has a row, whose
\* stored acousticness is the converted 0.005.
C7_Witness ==
    /\ resolved.valid
    /\ resolved.had_row
    /\ resolved.row["acousticness"] = Num(5000)
    /\ track_id = resolved.id

\* C8: whatever a feature fetch does, main goes on to its next poll, with
\* the track's descriptors left None (main ends on a failed write alone, which
\* is C11's matter).
C8_FetchFailureNeverCrashes ==
    /\ crashed => last_poll.storage # "ok"
    /\ resolved.valid /\ resolved.result.kind # "ok" /\ track_id = resolved.id
          => track_record.features = NoFeatures

\* C10: an exception from the currently-playing call is caught and, after
\* the cooldown sleep, the iteration goes as for "nothing playing": the
\* exception does not end main (only a failed write of the play it logs
\* does, as in any iteration), a tracked play is logged or dropped by the
\* play_time test, and no track is tracked afterwards.
PollFailedStep == vars' # vars /\ last_poll'.kind = "exception"
C10_PollFailureIsNothingPlaying ==
    [][PollFailedStep =>
        LET now == clock + COOLDOWN
            play_time == now - track_played_at
            emit == track_id # None /\ play_time > MINIMUM_PLAY_TIME
        IN  /\ crashed' = (last_poll'.storage # "ok")
            /\ ~crashed' =>
                 /\ track_id' = None
                 /\ clock' = now + TIME_DELAY
                 /\ last_poll'.slept
            /\ tracks_log' =
                 IF emit
                 THEN Append(tracks_log,
                             [track_record EXCEPT !.play_time = FormatTimedelta(play_time)])
                 ELSE tracks_log
            /\ track_id # None =>
                 /\ finalized'.valid
                 /\ finalized'.id = track_id
                 /\ finalized'.logged = emit]_vars

\* C10's case: the poll failed while a track was tracked, and main goes on
\* with nothing tracked.
C10_Witness ==
    /\ last_poll.kind = "exception"
    /\ finalized.valid /\ finalized.by = "exception"
    /\ track_id = None
    /\ ~crashed

\* C5 as stated: acousticness * 0.005, danceability * 2.25, energy * 0.03,
\* loudness = -(1 - loudness) * 14, every other field unchanged; the features
\* {acousticness 1.0, danceability 1.0, energy 1.0, loudness 0.0} give
\* {0.005, 2.25, 0.03, -14.0}.
C5_Fixture ==
    [acousticness |-> Num(Scale), danceability |-> Num(Scale),
     energy |-> Num(Scale), loudness |-> Num(0)]
C5_AmendedFixture ==
    [acousticness |-> Num(Scale), danceability |-> Num(Scale),
     energy |-> Num(Scale), instrumentalness |-> Num(Scale), loudness |-> Num(0)]
Carrying(t) ==
    { i \in DOMAIN calls : calls[i].id = t /\ calls[i].features # NoFeatures }
FirstOf(S) == CHOOSE i \in S : \A j \in S : i <= j
C9_FirstWriteWins ==
    \A t \in Tracks :
        /\ Len(RowsOf(db, t)) <= 1
        /\ Carrying(t) = {} => RowsOf(db, t) = <<>>
        /\ Carrying(t) # {} =>
              /\ Len(RowsOf(db, t)) = 1
              /\ RowsOf(db, t)[1].features = calls[FirstOf(Carrying(t))].features

\* C11: a write of a logged play that fails (the log file, or the insert
\* into track_info) is logged and main goes on to its sleep and its next
\* poll, the play still held in tracks_log.
C11_WriteFailureIsBestEffort ==
    last_poll.storage # "ok" => ~crashed /\ last_poll.slept

\* C18: every remote call made for main returns within a bounded time, so
\* main is never in a call that does not return and always reaches its next
\* poll.
C18_NoCallBlocksTheLoop == ~blocked

\* The batches gone through, and the input records of one of them
Batches == { batches[b] : b \in DOMAIN batches }
Members(B) == (B.start + 1)..B.end

\* C12: a batch is re-fetched if and only if some member of it, at any
\* position, lacks play_time or acousticness (by the very test the code
\* applies to the first member); a batch not re-fetched is copied as it is.
C12_RefetchIffAnyMemberLacks ==
    \A B \in Batches :
        /\ B.fetched <=> \E i \in Members(B) : first_lacks(tracks[i])
        /\ ~B.fetched => \A i \in Members(B) : modified_log[i] = tracks[i]

\* C13: in a re-fetched batch every record keeps each descriptor it has
\* with a non-null value, and each descriptor that is null, the key absent
\* or present with null, gets the value at the record's position in the
\* answer.
C13_NullFieldsFilledByPosition ==
    \A B \in Batches :
        B.fetched /\ B.whole =>
            \A i \in Members(B), k \in keys :
                modified_log[i].d[k] =
                    IF Get(tracks[i].d, k) # Null THEN tracks[i].d[k]
                    ELSE B.answer.afs[i - B.start][k]

\* C14: when audio_features answers None for one id of a batch, every
\* record of the batch is still output, the one without answer with its
\* missing descriptors null, and main does not end there.
C14_NullAnswerDegradesOneRecord ==
    \A B \in Batches :
        B.fetched /\ B.answer.kind = "answer" =>
            /\ B.whole
            /\ \A i \in Members(B), k \in keys :
                  B.answer.afs[i - B.start] = Null =>
                      modified_log[i].d[k] = Get(tracks[i].d, k)

\* C15: a run on a log of at least one record, whose records all have
\* every field with a value the code takes for present, leaves an identical
\* copy in the modified log file and calls audio_features for no batch (so
\* a second run on the output of a first one changes nothing).
FullyFeatured(rec) ==
    (\A k \in LogFields : Get(rec.d, k) # Null) /\ ~first_lacks(rec)
C15_FullLogIsCopiedWithoutCall ==
    /\ pc # "loop"
    /\ tracks # <<>>
    /\ \A i \in DOMAIN tracks : FullyFeatured(tracks[i])
    =>
        /\ written = [exists |-> TRUE, tracks |-> tracks]
        /\ \A B \in Batches : ~B.fetched

\* C19: for a log of any length, 0 and the multiples of BATCH_LENGTH
\* included, and audio_features answering for every id, main goes through
\* each batch once, leaves the loop and writes a log with one record per
\* input record, in input order.
C19_LoopEndsAndWritesEveryRecord ==
    /\ \A b \in DOMAIN batches : batches[b].start = (b - 1) * BATCH_LENGTH
    /\ pc # "loop" /\ (\A B \in Batches : B.whole) =>
          /\ pc = "done"
          /\ written.exists
          /\ Len(written.tracks) = Len(tracks)
          /\ \A i \in DOMAIN tracks : written.tracks[i].played_at = tracks[i].played_at

\* What the conversion makes of the features of an answer
Converted(raw) ==
    IF convert_to_spotify(raw).kind = "ok"
    THEN Project(convert_to_spotify(raw).val) ELSE NoFeatures

\* C17: the bundle one get_track_audio_features call returns has all its
\* 12 fields from one provider: it is the table row of the track as stored,
\* or, the table having no row, the converted features of the analysis
\* service's answer; the record of the track holds that bundle and nothing
\* else.
C17_BundleFromOneProvider ==
    resolved.valid /\ resolved.result.kind = "ok" =>
        /\ IF resolved.had_row
           THEN resolved.result.af = resolved.row /\ resolved.result.source = "store"
           ELSE /\ resolved.result.af = Converted(resolved.raw)
                /\ resolved.result.source = "analysis"
        /\ track_id = resolved.id => track_record.features = resolved.result.af

\* C17's case: the bundle came from a table row that has a null field
\* (time_signature), which the analysis service could have filled.
C17_Witness ==
    /\ resolved.valid
    /\ resolved.result.kind = "ok"
    /\ resolved.had_row
    /\ resolved.row["time_signature"] = Null
    /\ resolved.row["acousticness"] # Null
    /\ track_record.features = resolved.row

\* C16: the descriptors the back-fill takes from the analysis service are
\* converted before they are merged into a log row or stored in track_info:
\* a row filled from an answer holds the converted values, and no table row
\* holds the values as answered.
C16_AnalysisValuesConverted ==
    \A i \in DOMAIN fills :
        fills[i].by = "analysis" =>
            /\ tracklog_df[i].features = Converted(fills[i].raw)
            /\ \A j \in DOMAIN db :
                  db[j].features = Project(fills[i].raw) =>
                      Project(fills[i].raw) = Converted(fills[i].raw)

\* C20: after append_df(df) on a table holding rows R, every row of R is
\* still there as it was, every track of df that R did not have is there
\* exactly once, no track is there twice, and a table that had rows is not
\* left empty.
C20_BulkMergePreservesRows ==
    merged.valid =>
        /\ merged.before # <<>> => db # <<>>
        /\ \A i \in DOMAIN merged.before : \E j \in DOMAIN db : db[j] = merged.before[i]
        /\ \A i \in DOMAIN merged.df :
              RowsOf(merged.before, merged.df[i].track_id) = <<>> =>
                  Len(RowsOf(db, merged.df[i].track_id)) = 1
        /\ \A t \in Tracks : Len(RowsOf(db, t)) <= 1

\* C21: while a track is tracked, a poll that shows no track (nothing
\* playing, or a playback object without item) ends its run by the
\* play_time test and leaves no track tracked, so that the same track seen
\* again starts a new run.
NoTrackStep == (PollNoItem \/ PollNothing) /\ track_id # None /\ ~crashed'
C21_NoTrackSnapshotGoesIdle ==
    [][NoTrackStep =>
        /\ track_id' = None
        /\ finalized'.valid
        /\ finalized'.id = track_id
        /\ finalized'.d = clock - run_start]_vars

\* C22: when audio_features fails for a batch after earlier batches were
\* gone through, the modified log file holds the records of those earlier
\* batches.
C22_EarlierBatchesAreFlushed ==
    pc = "exit" /\ Len(batches) >= 2 =>
        /\ written.exists
        /\ written.tracks = modified_log
        /\ Len(written.tracks) = batches[Len(batches)].start

\* C23: play_time is set exactly on the finalized plays: every record of
\* the play log has a play_time, and the record of the track being tracked,
\* not yet in the log, has the empty play_time.
C23_PlayTimeSetIffFinalized ==
    /\ \A i \in DOMAIN tracks_log : tracks_log[i].play_time # Null
    /\ track_id # None /\ last_poll.storage = "ok" =>
          /\ track_record.id = track_id
          /\ track_record.play_time = Null

\* C23's case: a play is in the log with its play_time while another track
\* is tracked.
C23_Witness ==
    /\ tracks_log # <<>>
    /\ tracks_log[1].play_time = FormatTimedelta(25)
    /\ track_id # None
    /\ track_record.play_time = Null

\* C24: when get_track_audio_features returns None for a track, main keeps
\* tracking it with its 12 descriptors None; if the play is logged, its
\* record has the descriptors None and no row is inserted for it; every row
\* of track_info has an acousticness.
ResolvedNone(r) == r.valid /\ r.result.kind = "none"
C24_UnavailableLeavesNulls ==
    [][/\ (resolved' # resolved /\ ResolvedNone(resolved')) =>
            (/\ ~crashed' /\ ~blocked'
             /\ track_id' = resolved'.id
             /\ track_record'.features = NoFeatures)
       /\ (/\ ResolvedNone(resolved)
           /\ resolved.id = track_id
           /\ Len(tracks_log') = Len(tracks_log) + 1) =>
            (/\ tracks_log'[Len(tracks_log')].id = track_id
             /\ tracks_log'[Len(tracks_log')].features = NoFeatures
             /\ db' = db)
       /\ \A j \in DOMAIN db' : db'[j].features["acousticness"] # Null]_vars

\* C24's case: a play without descriptors is in the log and track_info has
\* no row for its track.
C24_Witness ==
    /\ tracks_log # <<>>
    /\ tracks_log[1].features = NoFeatures
    /\ RowsOf(db, tracks_log[1].id) = <<>>
    /\ ~crashed

C27_IdAndPlayedAtAreUnique ==
    \A i \in DOMAIN tracks_log, j \in DOMAIN tracks_log :
        i # j => <<tracks_log[i].id, tracks_log[i].played_at>>
                   # <<tracks_log[j].id, tracks_log[j].played_at>>

\* C27's case: one track logged twice, for two plays.
C27_Witness ==
    /\ Len(tracks_log) = 2
    /\ tracks_log[1].id = tracks_log[2].id
    /\ tracks_log[1].played_at # tracks_log[2].played_at

\* main inserts a row only for the track it resolved, and with the bundle
\* get_track_audio_features derived from the analysis service's answer (a
\* bundle read from the table belongs to a track that has its row already;
\* get_track_audio_features_spotify is never called).
InsertedRow == db'[Len(db')]
InsertOfResolvedTrack ==
    [][Len(db') > Len(db) =>
          /\ resolved.valid
          /\ resolved.id = InsertedRow.track_id
          /\ resolved.result.kind = "ok"
          /\ resolved.result.source = "analysis"
          /\ InsertedRow.features = resolved.result.af]_vars

\* C28: the spotify_flag of a row that main inserts is true exactly when the
\* row's descriptors came from the streaming service and false exactly when
\* they were derived from the analysis service's answer.
C28_FlagTellsProvider ==
    [][Len(db') > Len(db) =>
          /\ InsertedRow.spotify_flag <=> resolved.result.source = "streaming"
          /\ ~InsertedRow.spotify_flag <=> resolved.result.source = "analysis"]_vars

\* C29: every iteration of while True that does not end main ends with
\* time.sleep(TIME_DELAY): the next poll comes at least TIME_DELAY seconds
\* after this one, whatever get_track_audio_features returned.
C29_EveryIterationSleeps ==
    [][vars' # vars /\ ~crashed' /\ ~blocked' =>
          /\ last_poll'.slept
          /\ clock' >= clock + TIME_DELAY]_vars

\* C30: the file tracklog_to_json writes has the layout of the log file the
\* batch tools read: read back by SpotifyLog or by the enricher's main, it
\* gives the same account and the same list of tracks.
C30_WrittenLogReadsBack ==
    reread.kind # "idle" =>
        /\ reread.kind = "ok"
        /\ reread.account = Num(Account)
        /\ reread.tracks = tracklog_df

====
